---- MODULE Spec2Model ----
(***************************************************************************)
(* A model of the audio transcription tool: the configuration and its      *)
(* validation (src/src/config.py), discovery, batching and output-path     *)
(* resolution (src/src/file_processor.py), the model boundary              *)
(* (src/src/transcriber.py), the saving of a formatted result              *)
(* (src/src/formatters.py) and the sequential driver (src/src/app.py).     *)
(*                                                                         *)
(* A path is the sequence of its components; a component is the record of  *)
(* its stem and its suffix (pathlib's Path.stem and Path.suffix).  The     *)
(* file system is the set of directories and the map of regular files to   *)
(* their contents.  An Optional field of the configuration is the empty    *)
(* set (None) or a one-element set.                                        *)
(***************************************************************************)
EXTENDS Naturals, Sequences, FiniteSets, TLC

\* ------------------------------------------------------------------ bounds

\* The most audio-folder entries present when the run starts.
MaxEntries == 3
\* The largest configured batch_size.
MaxBatch == 2
\* The longest list handed to batch_files in a direct call.
MaxList == 5
\* The segments of a result handed to a formatter.
MaxSegments == 2
\* The calls of format_result on one result.
MaxCalls == 2
\* The offsets 0..MaxOffset, in milliseconds, handed to the time-code formatters.
MaxOffset == 1200

\* ------------------------------------------------------------------- paths

Nm(s, x) == [stem |-> s, suffix |-> x]

None == {}
Some(v) == {v}
IsSet(o) == o # {}
Val(o) == CHOOSE v \in o : TRUE

Root == <<>>
Parent(p) == SubSeq(p, 1, Len(p) - 1)
Name(p) == p[Len(p)]
Stem(p) == Name(p).stem
Suffix(p) == Name(p).suffix
Join(d, n) == Append(d, n)

\* str.lower() on the suffixes of the model's files.
Lower(s) ==
    CASE s = ".MP3" -> ".mp3"
      [] s = ".WAV" -> ".wav"
      [] s = ".TXT" -> ".txt"
      [] OTHER -> s

InDir == <<Nm("in", "")>>
SubDir == <<Nm("in", ""), Nm("sub", "")>>
\* A directory of the audio folder whose name ends like an audio file's.
AlbumDir == <<Nm("in", ""), Nm("e", ".mp3")>>
GoneDir == <<Nm("gone", "")>>
OutTop == <<Nm("out", "")>>
OutDir == <<Nm("out", ""), Nm("deep", "")>>
ResFile == <<Nm("res", ""), Nm("t", ".md")>>

FileA == Join(InDir, Nm("a", ".mp3"))
FileB == Join(InDir, Nm("b", ".WAV"))
FileC == Join(InDir, Nm("c", ".txt"))
FileD == Join(InDir, Nm("d", ".m4a"))
FileSubA == Join(SubDir, Nm("a", ".mp3"))

\* The entries the audio folder may hold when the run starts.
Candidates == {FileA, FileB, FileC, FileD, FileSubA}

\* The order of the component names as strings (code points), as
\* pathlib compares the parts of two paths.
NameOrder ==
    <<Nm("a", ".mp3"), Nm("b", ".WAV"), Nm("c", ".txt"), Nm("d", ".m4a"),
      Nm("deep", ""), Nm("e", ".mp3"), Nm("gone", ""), Nm("in", ""), Nm("out", ""),
      Nm("res", ""), Nm("sub", ""), Nm("t", ".md")>>
NameRank(n) == CHOOSE i \in 1..Len(NameOrder) : NameOrder[i] = n

Min2(a, b) == IF a <= b THEN a ELSE b

\* Path.__lt__: the parts compared as tuples of strings.
PathLess(p, q) ==
    \/ \E i \in 1..Min2(Len(p), Len(q)) :
          /\ \A j \in 1..(i - 1) : p[j] = q[j]
          /\ NameRank(p[i]) < NameRank(q[i])
    \/ /\ Len(p) < Len(q)
       /\ \A j \in 1..Len(p) : p[j] = q[j]

RECURSIVE Sorted(_)
\* sorted(audio_files)
Sorted(S) ==
    IF S = {} THEN <<>>
    ELSE LET m == CHOOSE x \in S : \A y \in S \ {x} : PathLess(x, y)
         IN <<m>> \o Sorted(S \ {m})

\* ------------------------------------------------------------- file system

AudioContent == [kind |-> "audio", src |-> None, fmt |-> ""]
OtherContent == [kind |-> "other", src |-> None, fmt |-> ""]

IsDir(dirs, p) == p = Root \/ p \in dirs
IsFile(files, p) == p \in DOMAIN files
Exists(dirs, files, p) == IsDir(dirs, p) \/ IsFile(files, p)

Prefixes(p) == {SubSeq(p, 1, i) : i \in 1..Len(p)}

\* Path.mkdir(parents=True, exist_ok=True): the error it raises ("none" when
\* it returns) and the directories afterwards.  permitted: whether the
\* operating system lets this process create a directory here.
Mkdir(dirs, files, p, permitted) ==
    IF IsDir(dirs, p) THEN [error |-> "none", dirs |-> dirs]
    ELSE IF \E q \in Prefixes(p) : IsFile(files, q)
         THEN [error |-> "FileExistsError", dirs |-> dirs]
    ELSE IF ~permitted THEN [error |-> "PermissionError", dirs |-> dirs]
    ELSE [error |-> "none", dirs |-> dirs \cup Prefixes(p)]

\* ----------------------------------------------------------- configuration

OutputFormat == {"md", "txt", "json", "srt", "vtt"}

supported_extensions ==
    {".mp3", ".wav", ".m4a", ".flac", ".ogg", ".wma", ".aac", ".mp4", ".mkv", ".avi"}

\* validate_paths without its check that both sources are not set.
validate_paths_both(cfg, dirs, files, permitted) ==
    IF IsSet(cfg.audio_file) /\ ~Exists(dirs, files, Val(cfg.audio_file))
    THEN [error |-> "ValueError: Audio file does not exist", dirs |-> dirs]
    ELSE IF IsSet(cfg.audio_folder) /\ ~Exists(dirs, files, Val(cfg.audio_folder))
    THEN [error |-> "ValueError: Audio folder does not exist", dirs |-> dirs]
    ELSE IF ~IsSet(cfg.audio_file) /\ ~IsSet(cfg.audio_folder)
    THEN [error |-> "ValueError: Either audio_file or audio_folder must be specified",
          dirs |-> dirs]
    ELSE IF IsSet(cfg.transcribe_folder)
            /\ ~Exists(dirs, files, Val(cfg.transcribe_folder))
    THEN Mkdir(dirs, files, Val(cfg.transcribe_folder), permitted)
    ELSE [error |-> "none", dirs |-> dirs]

\* TranscriptionConfig.validate_paths: the error raised ("none" when it
\* returns) and the directories afterwards.
validate_paths(cfg, dirs, files, permitted) ==
    IF IsSet(cfg.audio_file) /\ ~Exists(dirs, files, Val(cfg.audio_file))
    THEN [error |-> "ValueError: Audio file does not exist", dirs |-> dirs]
    ELSE IF IsSet(cfg.audio_folder) /\ ~Exists(dirs, files, Val(cfg.audio_folder))
    THEN [error |-> "ValueError: Audio folder does not exist", dirs |-> dirs]
    ELSE IF ~IsSet(cfg.audio_file) /\ ~IsSet(cfg.audio_folder)
    THEN [error |-> "ValueError: Either audio_file or audio_folder must be specified",
          dirs |-> dirs]
    ELSE IF IsSet(cfg.audio_file) /\ IsSet(cfg.audio_folder)
    THEN [error |-> "ValueError: Cannot specify both audio_file and audio_folder",
          dirs |-> dirs]
    ELSE IF IsSet(cfg.transcribe_folder)
            /\ ~Exists(dirs, files, Val(cfg.transcribe_folder))
    THEN Mkdir(dirs, files, Val(cfg.transcribe_folder), permitted)
    ELSE [error |-> "none", dirs |-> dirs]

\* --------------------------------------------------------------- discovery

\* _is_audio_file comparing the suffix as it is written.
_is_audio_file_cased(p) == Suffix(p) \in supported_extensions

\* _is_audio_file accepting every extension.
_is_audio_file_any(p) == TRUE

\* AudioFileProcessor._is_audio_file
_is_audio_file(p) == Lower(Suffix(p)) \in supported_extensions

\* folder.glob("**/*") when recursive, folder.glob("*") otherwise.
Glob(dirs, files, folder, recursive) ==
    LET entries == dirs \cup DOMAIN files
    IN IF recursive
       THEN {p \in entries :
                /\ Len(p) > Len(folder)
                /\ SubSeq(p, 1, Len(folder)) = folder}
       ELSE {p \in entries : Len(p) > 0 /\ Parent(p) = folder}

\* AudioFileProcessor._find_audio_files
_find_audio_files(cfg, dirs, files, folder) ==
    Sorted({p \in Glob(dirs, files, folder, cfg.recursive) :
               IsFile(files, p) /\ _is_audio_file(p)})

\* AudioFileProcessor.discover_audio_files: the error raised ("none" when it
\* returns) and the list returned.
discover_audio_files(cfg, dirs, files) ==
    IF IsSet(cfg.audio_file)
    THEN [error |-> "none", list |-> <<Val(cfg.audio_file)>>]
    ELSE IF IsSet(cfg.audio_folder)
    THEN [error |-> "none",
          list |-> _find_audio_files(cfg, dirs, files, Val(cfg.audio_folder))]
    ELSE [error |-> "ValueError: No audio source specified", list |-> <<>>]

\* ---------------------------------------------------------------- batching

\* files[lo:hi + 1]: the upper bound taken as inclusive.
Slice_inclusive(s, lo, hi) == SubSeq(s, lo + 1, Min2(hi + 1, Len(s)))

\* files[lo:hi]
Slice(s, lo, hi) == SubSeq(s, lo + 1, Min2(hi, Len(s)))

RECURSIVE BatchesFrom(_, _, _)
\* The groups yielded for i = start, start + batch_size, ... below len(files).
BatchesFrom(files, batch_size, start) ==
    IF start >= Len(files) THEN <<>>
    ELSE <<Slice(files, start, start + batch_size)>>
            \o BatchesFrom(files, batch_size, start + batch_size)

RECURSIVE FullBatchesFrom(_, _, _)
FullBatchesFrom(files, batch_size, start) ==
    IF start + batch_size > Len(files) THEN <<>>
    ELSE <<Slice(files, start, start + batch_size)>>
            \o FullBatchesFrom(files, batch_size, start + batch_size)

\* batch_files over range(0, len(files) - batch_size + 1, batch_size): the
\* remainder group is dropped.
batch_files_full_only(cfg, files) == FullBatchesFrom(files, cfg.batch_size, 0)

\* AudioFileProcessor.batch_files, as the list of the groups it yields.
batch_files(cfg, files) == BatchesFrom(files, cfg.batch_size, 0)

\* -------------------------------------------------------------- output path

\* AudioFileProcessor._get_extension_for_format
_get_extension_for_format(output_format) ==
    CASE output_format = "md" -> "md"
      [] output_format = "txt" -> "txt"
      [] output_format = "json" -> "json"
      [] output_format = "srt" -> "srt"
      [] output_format = "vtt" -> "vtt"
      [] OTHER -> "txt"

\* get_output_path with rule (1) taken whenever transcription_file is set.
get_output_path_any_source(cfg, audio_path, output_format) ==
    IF IsSet(cfg.transcription_file)
    THEN Val(cfg.transcription_file)
    ELSE LET base_name == Stem(audio_path)
             extension == _get_extension_for_format(output_format)
             output_filename == Nm(base_name \o "_transcription", "." \o extension)
         IN IF IsSet(cfg.transcribe_folder)
            THEN Join(Val(cfg.transcribe_folder), output_filename)
            ELSE Join(Parent(audio_path), output_filename)

\* AudioFileProcessor.get_output_path
get_output_path(cfg, audio_path, output_format) ==
    IF IsSet(cfg.transcription_file) /\ IsSet(cfg.audio_file)
    THEN Val(cfg.transcription_file)
    ELSE LET base_name == Stem(audio_path)
             extension == _get_extension_for_format(output_format)
             output_filename == Nm(base_name \o "_transcription", "." \o extension)
         IN IF IsSet(cfg.transcribe_folder)
            THEN Join(Val(cfg.transcribe_folder), output_filename)
            ELSE Join(Parent(audio_path), output_filename)

WriteTest == Nm(".write_test", "")

Without(files, p) == [q \in DOMAIN files \ {p} |-> files[q]]
WithFile(files, p, c) == [q \in DOMAIN files \cup {p} |-> IF q = p THEN c ELSE files[q]]

\* validate_output_path without its `except PermissionError` clause: every
\* failure becomes the RuntimeError.
validate_output_path_one_error(dirs, files, output_path, permitted) ==
    LET made == Mkdir(dirs, files, Parent(output_path), permitted)
        test_file == Join(Parent(output_path), WriteTest)
    IN IF made.error # "none" \/ ~permitted
       THEN [error |-> "RuntimeError: Cannot write to output path",
             dirs |-> made.dirs, files |-> files]
       ELSE [error |-> "none", dirs |-> made.dirs,
             files |-> Without(files, test_file)]

\* AudioFileProcessor.validate_output_path: the error raised ("none" when it
\* returns), the directories and the files afterwards.  permitted: whether
\* the operating system lets this process write in the parent directory.
validate_output_path(dirs, files, output_path, permitted) ==
    LET made == Mkdir(dirs, files, Parent(output_path), permitted)
        test_file == Join(Parent(output_path), WriteTest)
    IN IF made.error = "PermissionError"
       THEN [error |-> "PermissionError: No write permission",
             dirs |-> made.dirs, files |-> files]
       ELSE IF made.error # "none"
       THEN [error |-> "RuntimeError: Cannot write to output path",
             dirs |-> made.dirs, files |-> files]
       ELSE IF ~permitted
       THEN [error |-> "PermissionError: No write permission",
             dirs |-> made.dirs, files |-> files]
       ELSE [error |-> "none", dirs |-> made.dirs,
             files |-> Without(files, test_file)]

\* ------------------------------------------------------------------- values

\* dict.get(key, default)
Get(d, key, default) == IF key \in DOMAIN d THEN d[key] ELSE default

\* A text of a result is the sequence of its characters; a line of a
\* formatted document is a string.
RECURSIVE Str(_)
Str(chars) == IF chars = <<>> THEN "" ELSE Head(chars) \o Str(Tail(chars))

RECURSIVE PathStr(_)
\* str(path)
PathStr(p) ==
    IF p = Root THEN "."
    ELSE IF Len(p) = 1 THEN Stem(p) \o Suffix(p)
    ELSE PathStr(Parent(p)) \o "/" \o Stem(p) \o Suffix(p)

Whitespace == {" ", "\n", "\t"}

RECURSIVE LStrip(_)
LStrip(chars) ==
    IF chars # <<>> /\ Head(chars) \in Whitespace THEN LStrip(Tail(chars)) ELSE chars

RECURSIVE RStrip(_)
RStrip(chars) ==
    IF chars # <<>> /\ chars[Len(chars)] \in Whitespace
    THEN RStrip(SubSeq(chars, 1, Len(chars) - 1)) ELSE chars

\* str.strip()
Strip(chars) == RStrip(LStrip(chars))

Digit == <<"0", "1", "2", "3", "4", "5", "6", "7", "8", "9">>

RECURSIVE Dec(_)
\* The decimal digits of a natural number.
Dec(v) == IF v < 10 THEN Digit[v + 1] ELSE Dec(v \div 10) \o Digit[(v % 10) + 1]

RECURSIVE NumDigits(_)
NumDigits(v) == IF v < 10 THEN 1 ELSE 1 + NumDigits(v \div 10)

RECURSIVE Zeros(_)
Zeros(k) == IF k <= 0 THEN "" ELSE "0" \o Zeros(k - 1)

\* f"{v:0{width}d}"
Pad(v, width) == Zeros(width - NumDigits(v)) \o Dec(v)

\* ------------------------------------------------------------------- floats

\* A float of the program is held as the natural number n of thousandths of
\* its decimal literal: it is the IEEE-754 double nearest to n/1000, which is
\* F / 2^k for the integer F nearest to n * 2^k / 1000, 2^52 <= F < 2^53.

RECURSIVE Log2(_)
\* floor(log2(x)), x >= 1
Log2(x) == IF x < 2 THEN 0 ELSE 1 + Log2(x \div 2)

RECURSIVE Pow2(_)
Pow2(e) == IF e <= 0 THEN 1 ELSE 2 * Pow2(e - 1)

RECURSIVE Pow2Mod1000(_)
Pow2Mod1000(k) == IF k = 0 THEN 1 ELSE (2 * Pow2Mod1000(k - 1)) % 1000

IsPow2(x) == x = Pow2(Log2(x))

RECURSIVE BelowOne(_, _)
\* The least j with q * 2^j >= 1000, for 1 <= q < 1000.
BelowOne(q, j) == IF q * Pow2(j) >= 1000 THEN j ELSE BelowOne(q, j + 1)

\* k - 52 for the double nearest to n/1000: minus the exponent of the double.
Scale(n) ==
    IF n >= 1000 THEN 0 - Log2(n \div 1000)
    ELSE IF n >= 1 THEN BelowOne(n, 1)
    ELSE 0

\* (n * 2^k) mod 1000: what rounding n * 2^k / 1000 to the integer F drops.
\* It is 0 when n/1000 is a double, below 500 when the double is below
\* n/1000 and above 500 when the double is above it (a tie cannot occur).
Residue(n) == ((n % 1000) * Pow2Mod1000(52 + Scale(n))) % 1000

\* int((seconds % 1) * 1000).  seconds % 1 is exact: it is q/1000 shifted by
\* the rounding error of the double, q = n mod 1000.  When the double is
\* below n/1000 the exact product with 1000 is q - t/2^k, t the residue; the
\* product rounds to the double q when t/2^k is at most half the gap between
\* q and the double below it, 2^(Log2(q) - 53) (half of that for q a power of
\* two), and to a double below q otherwise, which int() truncates to q - 1.
FracMillis(n) ==
    LET q == n % 1000
        t == Residue(n)
        e == Log2(q) + Scale(n) - 1 - (IF IsPow2(q) THEN 1 ELSE 0)
    IN IF q = 0 \/ t = 0 \/ t > 500 THEN q
       ELSE IF e >= 0 /\ t <= Pow2(e) THEN q
       ELSE q - 1

\* f"{x:.2f}": the exact value of the double rounded to hundredths, ties to
\* even; a decimal tie (n ending in 5) is decided by the side on which the
\* double lies.
Fixed2(n) ==
    LET c == n \div 10
        r == n % 10
        t == Residue(n)
        up == \/ r > 5
              \/ r = 5 /\ t > 500
              \/ r = 5 /\ t = 0 /\ c % 2 = 1
        h == IF up THEN c + 1 ELSE c
    IN Dec(h \div 100) \o "." \o Pad(h % 100, 2)

\* -------------------------------------------------------------- transcriber

\* What the environment does to one file's processing: nothing, the model
\* raising, no write permission in the output directory, write_text failing
\* before it touched the file, write_text failing part-way.
Faults == {"none", "model_raises", "no_permission", "open_fails", "write_interrupted"}

\* WhisperTranscriber._is_supported_format
_is_supported_format(p) == Lower(Suffix(p)) \in supported_extensions

\* What model.transcribe returns for a file.
ModelOutput ==
    [text |-> <<" ", "h", "i">>,
     segments |-> <<[start |-> 0, end |-> 2500, text |-> <<" ", "h", "i">>]>>,
     language |-> "en"]

\* The metadata with a duration only when the model returned segments.
WithMetadata_segments_only(raw, audio_path) ==
    [metadata |->
        [file_path |-> PathStr(audio_path),
         file_size |-> 1,
         model |-> "base",
         language |-> Get(raw, "language", "en")]
        @@ (IF Get(raw, "segments", <<>>) # <<>>
            THEN [duration |-> Get(raw.segments[Len(raw.segments)], "end", 0)]
            ELSE <<>>)] @@ raw

\* transcribe_file, lines 77-83: the model's result with its metadata.
WithMetadata(raw, audio_path) ==
    [metadata |->
        [file_path |-> PathStr(audio_path),
         file_size |-> 1,
         model |-> "base",
         language |-> Get(raw, "language", "en"),
         duration |-> IF Get(raw, "segments", <<>>) # <<>>
                      THEN Get(raw.segments[Len(raw.segments)], "end", 0)
                      ELSE 0]] @@ raw

\* transcribe_file without its two checks: every path is handed to the model.
transcribe_file_unchecked(handle, dirs, files, audio_path, fault) ==
    IF fault = "model_raises"
    THEN [error |-> "Exception: model", calls |-> <<handle>>, result |-> None]
    ELSE [error |-> "none", calls |-> <<handle>>,
          result |-> Some(WithMetadata(ModelOutput, audio_path))]

\* transcribe_file calling the model a second time when it raised.
transcribe_file_retry(handle, dirs, files, audio_path, fault) ==
    IF ~Exists(dirs, files, audio_path)
    THEN [error |-> "FileNotFoundError: Audio file not found",
          calls |-> <<>>, result |-> None]
    ELSE IF ~_is_supported_format(audio_path)
    THEN [error |-> "ValueError: Unsupported audio format",
          calls |-> <<>>, result |-> None]
    ELSE IF fault = "model_raises"
    THEN [error |-> "Exception: model", calls |-> <<handle, handle>>, result |-> None]
    ELSE [error |-> "none", calls |-> <<handle>>,
          result |-> Some(WithMetadata(ModelOutput, audio_path))]

\* transcribe_file loading a model of its own instead of using the loaded one.
transcribe_file_reload(handle, dirs, files, audio_path, fault) ==
    IF ~Exists(dirs, files, audio_path)
    THEN [error |-> "FileNotFoundError: Audio file not found",
          calls |-> <<>>, result |-> None]
    ELSE IF ~_is_supported_format(audio_path)
    THEN [error |-> "ValueError: Unsupported audio format",
          calls |-> <<>>, result |-> None]
    ELSE IF fault = "model_raises"
    THEN [error |-> "Exception: model", calls |-> <<handle + 1>>, result |-> None]
    ELSE [error |-> "none", calls |-> <<handle + 1>>,
          result |-> Some(WithMetadata(ModelOutput, audio_path))]

\* WhisperTranscriber.transcribe_file with the model handle `handle`: the
\* error raised ("none" when it returns), the handles model.transcribe was
\* called on, and the result.
transcribe_file(handle, dirs, files, audio_path, fault) ==
    IF ~Exists(dirs, files, audio_path)
    THEN [error |-> "FileNotFoundError: Audio file not found",
          calls |-> <<>>, result |-> None]
    ELSE IF ~_is_supported_format(audio_path)
    THEN [error |-> "ValueError: Unsupported audio format",
          calls |-> <<>>, result |-> None]
    ELSE IF fault = "model_raises"
    THEN [error |-> "Exception: model", calls |-> <<handle>>, result |-> None]
    ELSE [error |-> "none", calls |-> <<handle>>,
          result |-> Some(WithMetadata(ModelOutput, audio_path))]

\* The device chosen whatever torch reports: the requested one.
_get_device_requested(cfg, torch) == cfg.device

\* WhisperTranscriber._get_device.  torch: what torch.cuda.is_available()
\* and torch.backends.mps.is_available() report.
_get_device(cfg, torch) ==
    IF cfg.device = "cuda" /\ torch.cuda THEN "cuda"
    ELSE IF cfg.device = "mps" /\ torch.mps THEN "mps"
    ELSE IF cfg.device = "cpu" THEN "cpu"
    ELSE IF torch.mps THEN "mps"
    ELSE IF torch.cuda THEN "cuda"
    ELSE "cpu"

\* _load_model, lines 20-30: the arguments of whisper.load_model.
load_model_args(cfg, torch) == [name |-> cfg.model, device |-> _get_device(cfg, torch)]

\* WhisperTranscriber._get_transcription_options: the dict it returns, a
\* function from the option names it holds.  A float is its thousandths.
_get_transcription_options(cfg, torch) ==
    LET language == IF IsSet(cfg.language) /\ Val(cfg.language) # ""
                    THEN [language |-> Val(cfg.language)] ELSE <<>>
        temperature == IF cfg.temperature # 0
                       THEN [temperature |-> cfg.temperature] ELSE <<>>
        fp16 == IF _get_device(cfg, torch) = "cpu" THEN [fp16 |-> FALSE] ELSE <<>>
        top_p == IF cfg.top_p # 1000 THEN [top_p |-> cfg.top_p] ELSE <<>>
        top_k == IF IsSet(cfg.top_k) THEN [top_k |-> Val(cfg.top_k)] ELSE <<>>
        decode_options == top_p @@ top_k
    IN language @@ temperature @@ fp16
          @@ (IF DOMAIN decode_options # {}
              THEN [decode_options |-> decode_options] ELSE <<>>)

\* transcribe_file with the model's answer as a parameter (None: the model
\* raises): the error raised ("none" when it returns), the invocations of
\* model.transcribe with their positional argument and their keywords, and
\* the result.
transcribe_file_traced(cfg, torch, dirs, files, audio_path, answer) ==
    LET options == _get_transcription_options(cfg, torch)
        invocation == [audio |-> PathStr(audio_path), keywords |-> options]
    IN IF ~Exists(dirs, files, audio_path)
       THEN [error |-> "FileNotFoundError: Audio file not found",
             invoked |-> <<>>, result |-> None]
       ELSE IF ~_is_supported_format(audio_path)
       THEN [error |-> "ValueError: Unsupported audio format",
             invoked |-> <<>>, result |-> None]
       ELSE IF ~IsSet(answer)
       THEN [error |-> "Exception: model", invoked |-> <<invocation>>, result |-> None]
       ELSE [error |-> "none", invoked |-> <<invocation>>,
             result |-> Some(WithMetadata(Val(answer), audio_path))]

\* --------------------------------------------------------------- formatters

\* datetime.now().isoformat() for the clock reading `now`, in seconds.
IsoFormat(now) == "1970-01-01T00:00:" \o Pad(now, 2)

\* A formatted document is the sequence of its lines; a JSON document is the
\* tree of its values.

\* The lines "**i.** [start - end] text" and "" of format_markdown.
SegmentLines(segments) ==
    [j \in 1..(2 * Len(segments)) |->
        IF j % 2 = 0 THEN ""
        ELSE LET i == (j + 1) \div 2
                 segment == segments[i]
                 start == Get(segment, "start", 0)
                 end == Get(segment, "end", 0)
                 segment_text == Strip(Get(segment, "text", <<>>))
             IN "**" \o Dec(i) \o ".** [" \o Fixed2(start) \o "s - " \o Fixed2(end)
                \o "s] " \o Str(segment_text)]

\* OutputFormatter.format_markdown
format_markdown(result, now) ==
    LET metadata == Get(result, "metadata", <<>>)
        text == Strip(Get(result, "text", <<>>))
        content == <<"# Transcription",
                     "",
                     "**File:** " \o Get(metadata, "file_path", "Unknown"),
                     "**Model:** " \o Get(metadata, "model", "Unknown"),
                     "**Language:** " \o Get(metadata, "language", "Unknown"),
                     "**Duration:** " \o Fixed2(Get(metadata, "duration", 0)) \o " seconds",
                     "**Generated:** " \o IsoFormat(now),
                     "",
                     "## Content",
                     "",
                     Str(text)>>
        segments == Get(result, "segments", <<>>)
    IN IF segments # <<>>
       THEN content \o <<"", "## Segments", "">> \o SegmentLines(segments)
       ELSE content

\* OutputFormatter.format_text
format_text(result, now) ==
    LET text == Strip(Get(result, "text", <<>>))
        metadata == Get(result, "metadata", <<>>)
        header == <<"Transcription of: " \o Get(metadata, "file_path", "Unknown"),
                    "Model: " \o Get(metadata, "model", "Unknown"),
                    "Language: " \o Get(metadata, "language", "Unknown"),
                    "Duration: " \o Fixed2(Get(metadata, "duration", 0)) \o " seconds",
                    "Generated: " \o IsoFormat(now),
                    "",
                    "==================================================",
                    "">>
    IN header \o <<Str(text)>>

\* json.dumps of a character: the escapes of the characters that need one.
Escape(c) ==
    CASE c = "\n" -> "\\n"
      [] c = "\t" -> "\\t"
      [] c = "\"" -> "\\\""
      [] c = "\\" -> "\\\\"
      [] OTHER -> c

\* json.loads of an escaped character.
Unescape(e) ==
    CASE e = "\\n" -> "\n"
      [] e = "\\t" -> "\t"
      [] e = "\\\"" -> "\""
      [] e = "\\\\" -> "\\"
      [] OTHER -> e

\* json.dumps by type: a text, a string without characters to escape, a
\* float (its repr, the whole part and the thousandths) and an int.
DumpsText(chars) ==
    [type |-> "string", chars |-> [i \in 1..Len(chars) |-> Escape(chars[i])]]
DumpsStr(s) == [type |-> "string", chars |-> <<s>>]
DumpsNumber(n) == [type |-> "number", whole |-> n \div 1000, frac |-> n % 1000]
DumpsInt(v) == [type |-> "number", whole |-> v, frac |-> 0]

DumpsSegment(segment) ==
    [type |-> "object",
     members |-> [k \in DOMAIN segment |->
                     IF k = "text" THEN DumpsText(segment[k])
                     ELSE DumpsNumber(segment[k])]]

DumpsMetadata(metadata) ==
    [type |-> "object",
     members |-> [k \in DOMAIN metadata |->
                     IF k = "duration" THEN DumpsNumber(metadata[k])
                     ELSE IF k = "file_size" THEN DumpsInt(metadata[k])
                     ELSE DumpsStr(metadata[k])]]

\* json.dumps(result, indent=2, ensure_ascii=False)
json_dumps(result) ==
    [type |-> "object",
     members |-> [k \in DOMAIN result |->
                     CASE k = "text" -> DumpsText(result[k])
                       [] k = "segments" ->
                            [type |-> "array",
                             items |-> [i \in 1..Len(result[k]) |->
                                           DumpsSegment(result[k][i])]]
                       [] k = "metadata" -> DumpsMetadata(result[k])
                       [] OTHER -> DumpsStr(result[k])]]

LoadsText(j) == [i \in 1..Len(j.chars) |-> Unescape(j.chars[i])]
LoadsStr(j) == j.chars[1]
LoadsNumber(j) == j.whole * 1000 + j.frac
LoadsInt(j) == j.whole

LoadsSegment(j) ==
    [k \in DOMAIN j.members |->
        IF k = "text" THEN LoadsText(j.members[k]) ELSE LoadsNumber(j.members[k])]

LoadsMetadata(j) ==
    [k \in DOMAIN j.members |->
        IF k = "duration" THEN LoadsNumber(j.members[k])
        ELSE IF k = "file_size" THEN LoadsInt(j.members[k])
        ELSE LoadsStr(j.members[k])]

\* json.loads(content), as test_format_json parses the document
json_loads(j) ==
    [k \in DOMAIN j.members |->
        CASE k = "text" -> LoadsText(j.members[k])
          [] k = "segments" ->
               [i \in 1..Len(j.members[k].items) |->
                   LoadsSegment(j.members[k].items[i])]
          [] k = "metadata" -> LoadsMetadata(j.members[k])
          [] OTHER -> LoadsStr(j.members[k])]

\* format_json without the generation timestamp.
format_json_unstamped(result, now) ==
    [content |-> json_dumps(result), result |-> result]

\* format_json stamping under a new key at each call.
format_json_restamped(result, now) ==
    LET key == IF "generated_at" \in DOMAIN result THEN "generated_again"
               ELSE "generated_at"
        stamped == (key :> IsoFormat(now)) @@ result
    IN [content |-> json_dumps(stamped), result |-> stamped]

\* OutputFormatter.format_json: the document and the result afterwards.
format_json(result, now) ==
    LET stamped == [generated_at |-> IsoFormat(now)] @@ result
    IN [content |-> json_dumps(stamped), result |-> stamped]

\* OutputFormatter._format_srt_time
_format_srt_time(seconds) ==
    LET hours == seconds \div 3600000
        minutes == (seconds % 3600000) \div 60000
        secs == (seconds % 60000) \div 1000
        milliseconds == FracMillis(seconds)
    IN Pad(hours, 2) \o ":" \o Pad(minutes, 2) \o ":" \o Pad(secs, 2) \o ","
       \o Pad(milliseconds, 3)

\* OutputFormatter._format_vtt_time
_format_vtt_time(seconds) ==
    LET hours == seconds \div 3600000
        minutes == (seconds % 3600000) \div 60000
        secs == (seconds % 60000) \div 1000
        milliseconds == FracMillis(seconds)
    IN Pad(hours, 2) \o ":" \o Pad(minutes, 2) \o ":" \o Pad(secs, 2) \o "."
       \o Pad(milliseconds, 3)

\* The cue of format_srt numbered from 0.
SrtCue_from_zero(segments, i) ==
    LET segment == segments[i]
        start_time == _format_srt_time(Get(segment, "start", 0))
        end_time == _format_srt_time(Get(segment, "end", 0))
        text == Strip(Get(segment, "text", <<>>))
    IN <<Dec(i - 1), start_time \o " --> " \o end_time, Str(text), "">>

\* format_srt, lines 82-88: the four lines of cue i.
SrtCue(segments, i) ==
    LET segment == segments[i]
        start_time == _format_srt_time(Get(segment, "start", 0))
        end_time == _format_srt_time(Get(segment, "end", 0))
        text == Strip(Get(segment, "text", <<>>))
    IN <<Dec(i), start_time \o " --> " \o end_time, Str(text), "">>

\* OutputFormatter.format_srt
format_srt(result) ==
    LET segments == Get(result, "segments", <<>>)
    IN IF segments = <<>>
       THEN LET text == Strip(Get(result, "text", <<>>))
                duration == Get(Get(result, "metadata", <<>>), "duration", 30000)
            IN <<"1", "00:00:00,000 --> " \o _format_srt_time(duration), Str(text), "">>
       ELSE [j \in 1..(4 * Len(segments)) |->
                SrtCue(segments, (j + 3) \div 4)[((j - 1) % 4) + 1]]

\* The cue of format_vtt with the text of the segment as it is.
VttCue_unstripped(segments, i) ==
    LET segment == segments[i]
        start_time == _format_vtt_time(Get(segment, "start", 0))
        end_time == _format_vtt_time(Get(segment, "end", 0))
        text == Get(segment, "text", <<>>)
    IN <<start_time \o " --> " \o end_time, Str(text), "">>

\* format_vtt, lines 112-117: the three lines of cue i.
VttCue(segments, i) ==
    LET segment == segments[i]
        start_time == _format_vtt_time(Get(segment, "start", 0))
        end_time == _format_vtt_time(Get(segment, "end", 0))
        text == Strip(Get(segment, "text", <<>>))
    IN <<start_time \o " --> " \o end_time, Str(text), "">>

\* OutputFormatter.format_vtt
format_vtt(result) ==
    LET segments == Get(result, "segments", <<>>)
        vtt_content == <<"WEBVTT", "">>
    IN IF segments = <<>>
       THEN LET text == Strip(Get(result, "text", <<>>))
                duration == Get(Get(result, "metadata", <<>>), "duration", 30000)
            IN vtt_content
               \o <<"00:00:00.000 --> " \o _format_vtt_time(duration), Str(text), "">>
       ELSE vtt_content
            \o [j \in 1..(3 * Len(segments)) |->
                   VttCue(segments, (j + 2) \div 3)[((j - 1) % 3) + 1]]

\* format_result falling back to a formatter for an unknown tag, as
\* _get_extension_for_format falls back to txt.
format_result_error_fallback(output_format) == "none"

\* OutputFormatter.format_result, lines 143-152: the error raised for a tag
\* ("none" when a formatter is found).
format_result_error(output_format) ==
    IF output_format \notin {"md", "txt", "json", "srt", "vtt"}
    THEN "ValueError: Unsupported output format"
    ELSE "none"

\* OutputFormatter.format_result at the clock reading `now`: the error
\* raised ("none" when it returns), the document and the result afterwards.
format_result(result, output_format, now) ==
    CASE output_format = "md" ->
            [error |-> "none", content |-> format_markdown(result, now), result |-> result]
      [] output_format = "txt" ->
            [error |-> "none", content |-> format_text(result, now), result |-> result]
      [] output_format = "json" ->
            [error |-> "none", content |-> format_json(result, now).content,
             result |-> format_json(result, now).result]
      [] output_format = "srt" ->
            [error |-> "none", content |-> format_srt(result), result |-> result]
      [] output_format = "vtt" ->
            [error |-> "none", content |-> format_vtt(result), result |-> result]
      [] OTHER ->
            [error |-> format_result_error(output_format), content |-> <<>>,
             result |-> result]

\* What the file system holds of a formatted document: the file it is the
\* transcript of and its format.
Transcript(result, output_format) ==
    [kind |-> "transcript", src |-> Some(result.metadata.file_path),
     fmt |-> output_format]

\* What a write_text that failed part-way leaves of `content`.
Partial(content) == [content EXCEPT !.kind = "partial"]

\* OutputFormatter.save_result: the error raised ("none" when it returns),
\* the directories and the files afterwards.
save_result(dirs, files, content, output_path, fault) ==
    LET made == Mkdir(dirs, files, Parent(output_path), fault # "no_permission")
    IN IF made.error # "none"
       THEN [error |-> "RuntimeError: Failed to save", dirs |-> made.dirs,
             files |-> files]
       ELSE IF IsDir(made.dirs, output_path) \/ fault = "open_fails"
       THEN [error |-> "RuntimeError: Failed to save", dirs |-> made.dirs,
             files |-> files]
       ELSE IF fault = "write_interrupted"
       THEN [error |-> "RuntimeError: Failed to save", dirs |-> made.dirs,
             files |-> WithFile(files, output_path, Partial(content))]
       ELSE [error |-> "none", dirs |-> made.dirs,
             files |-> WithFile(files, output_path, content)]

\* ---------------------------------------------------------------------- app

\* TranscriptionApp._process_single_file: the error raised ("none" when it
\* returns), the steps that ran, the handles the model was called on, the
\* resolved output path, whether an output file was written, and the file
\* system afterwards.  Of the formatted document the file system keeps what
\* Transcript keeps.
_process_single_file(cfg, handle, dirs, files, audio_file, fault) ==
    LET t == transcribe_file(handle, dirs, files, audio_file, fault)
        output_path == get_output_path(cfg, audio_file, cfg.output_format)
        v == validate_output_path(dirs, files, output_path, fault # "no_permission")
        f == [error |-> format_result_error(cfg.output_format),
              content |-> Transcript(Val(t.result), cfg.output_format)]
        s == save_result(v.dirs, v.files, f.content, output_path, fault)
        base == [file |-> audio_file, calls |-> t.calls]
    IN IF t.error # "none"
       THEN base @@ [error |-> t.error, steps |-> <<"transcribe">>,
                     output_path |-> None, wrote |-> FALSE,
                     dirs |-> dirs, files |-> files]
       ELSE IF v.error # "none"
       THEN base @@ [error |-> v.error,
                     steps |-> <<"transcribe", "resolve", "validate">>,
                     output_path |-> Some(output_path), wrote |-> FALSE,
                     dirs |-> v.dirs, files |-> v.files]
       ELSE IF f.error # "none"
       THEN base @@ [error |-> f.error,
                     steps |-> <<"transcribe", "resolve", "validate", "format">>,
                     output_path |-> Some(output_path), wrote |-> FALSE,
                     dirs |-> v.dirs, files |-> v.files]
       ELSE base @@ [error |-> s.error,
                     steps |-> <<"transcribe", "resolve", "validate", "format", "save">>,
                     output_path |-> Some(output_path),
                     wrote |-> s.files # v.files \/ s.error = "none",
                     dirs |-> s.dirs, files |-> s.files]

\* WhisperTranscriber.__init__ and _load_model: the error raised ("none" when
\* the model is loaded) and the handle of the loaded model, the `loads`-th
\* one this process loaded.
_load_model(loads, load_ok) ==
    IF load_ok THEN [error |-> "none", model |-> Some(loads + 1), loads |-> loads + 1]
    ELSE [error |-> "Exception: load_model", model |-> None, loads |-> loads + 1]

\* run starting at the model load, validate_paths left out.
run_entry_load == "load_model"

\* The first statement of TranscriptionApp.run, and the statement after each.
run_entry == "validate_paths"
run_next(stmt) ==
    CASE stmt = "validate_paths" -> "load_model"
      [] stmt = "load_model" -> "discover"
      [] stmt = "discover" -> "process"
      [] OTHER -> "returned"

\* The advance made only in the try body: a failed file advances nothing.
advance_unless_failed(completed, error) ==
    IF error = "none" THEN completed + 1 ELSE completed

\* progress.advance(task) after a file: in the try body when
\* _process_single_file returned (lines 124-125), in the except clause when
\* it raised `error` (lines 129-130).
advance(completed, error) == completed + 1

\* _process_files without its try/except: the exception leaves the loop.
except_Exception_raise(error) == "raise"

\* What _process_files does with an exception of _process_single_file.
except_Exception(error) == "continue"

\* --------------------------------------------------------------------- state

VARIABLES
    config,       \* the TranscriptionConfig
    dirs,         \* the directories of the file system
    files,        \* the regular files of the file system and their contents
    pc,           \* the statement of run about to execute, "returned" or "raised"
    fatal,        \* the statement whose exception run re-raised, and the error
    validated,    \* whether validate_paths has returned
    transcriber,  \* the model handle of self.transcriber, or None
    loads,        \* the number of times a model load was started
    audio_files,  \* the list discover_audio_files returned
    batches,      \* the groups batch_files yields
    bi,           \* the index of the current batch
    fi,           \* the index of the current file in the current batch
    main_task,    \* the completed count of the overall progress task
    batch_task,   \* the completed count of the current batch task
    removed,      \* per removed batch task: its total and its completed count
    log,          \* per file handed to _process_single_file: what happened
    call          \* the last direct call of a method, with its arguments and result

vars == <<config, dirs, files, pc, fatal, validated, transcriber, loads, audio_files,
          batches, bi, fi, main_task, batch_task, removed, log, call>>

fsVars == <<dirs, files>>
loopVars == <<audio_files, batches, bi, fi, main_task, batch_task, removed, log>>

NoCall == [op |-> "none"]
NoFatal == [stmt |-> "none", error |-> "none"]

\* How the transcribe folder is when the run starts.
OutStates == {"absent", "dir", "file"}

InitDirs(out) ==
    {InDir, SubDir, AlbumDir} \cup (IF out = "dir" THEN {OutTop, OutDir}
                          ELSE IF out = "file" THEN {OutTop} ELSE {})
InitFiles(present, out) ==
    [p \in present \cup (IF out = "file" THEN {OutDir} ELSE {}) |->
        IF p = OutDir THEN OtherContent ELSE AudioContent]

Configs ==
    [audio_file : {None, Some(FileA), Some(FileC)},
     audio_folder : {None, Some(InDir), Some(GoneDir)},
     transcribe_folder : {None, Some(OutDir)},
     transcription_file : {None, Some(ResFile)},
     recursive : BOOLEAN,
     output_format : OutputFormat,
     batch_size : 1..MaxBatch]

InitRun ==
    /\ pc = run_entry
    /\ fatal = NoFatal
    /\ validated = FALSE
    /\ transcriber = None
    /\ loads = 0
    /\ audio_files = <<>>
    /\ batches = <<>>
    /\ bi = 1
    /\ fi = 1
    /\ main_task = 0
    /\ batch_task = 0
    /\ removed = <<>>
    /\ log = <<>>
    /\ call = NoCall

Init ==
    /\ config \in Configs
    /\ \E present \in SUBSET Candidates, out \in OutStates :
          /\ Cardinality(present) <= MaxEntries
          /\ ~IsSet(config.transcribe_folder) => out = "absent"
          /\ dirs = InitDirs(out)
          /\ files = InitFiles(present, out)
    /\ InitRun

\* ------------------------------------------------------------------- actions

Raise(stmt, error) ==
    /\ pc' = "raised"
    /\ fatal' = [stmt |-> stmt, error |-> error]

\* run, line 47: self.config.validate_paths()
ValidatePaths ==
    /\ pc = "validate_paths"
    /\ \E permitted \in BOOLEAN :
          LET r == validate_paths(config, dirs, files, permitted)
          IN /\ dirs' = r.dirs
             /\ IF r.error = "none"
                THEN /\ pc' = run_next(pc)
                     /\ validated' = TRUE
                     /\ fatal' = fatal
                ELSE /\ Raise("validate_paths", r.error)
                     /\ validated' = validated
    /\ UNCHANGED <<config, files, transcriber, loads, loopVars, call>>

\* run, line 50: self.transcriber = WhisperTranscriber(self.config)
LoadModel ==
    /\ pc = "load_model"
    /\ \E load_ok \in BOOLEAN :
          LET r == _load_model(loads, load_ok)
          IN /\ loads' = r.loads
             /\ IF r.error = "none"
                THEN /\ transcriber' = r.model
                     /\ pc' = run_next(pc)
                     /\ fatal' = fatal
                ELSE /\ transcriber' = transcriber
                     /\ Raise("load_model", r.error)
    /\ UNCHANGED <<config, fsVars, validated, loopVars, call>>

\* run, lines 53-57: discovery, and the return when nothing was found; then
\* _process_files up to its first file: the batches and the two tasks.
Discover ==
    /\ pc = "discover"
    /\ LET r == discover_audio_files(config, dirs, files)
       IN IF r.error # "none"
          THEN /\ Raise("discover", r.error)
               /\ UNCHANGED <<audio_files, batches>>
          ELSE /\ audio_files' = r.list
               /\ batches' = batch_files(config, r.list)
               /\ pc' = IF r.list = <<>> \/ batch_files(config, r.list) = <<>>
                        THEN "returned" ELSE run_next(pc)
               /\ fatal' = fatal
    /\ UNCHANGED <<config, fsVars, validated, transcriber, loads, bi, fi, main_task,
                   batch_task, removed, log, call>>

\* _process_files, lines 116-133: one file of the current batch, and the
\* removal of the batch task after the batch's last file.
ProcessFile ==
    /\ pc = "process"
    /\ \E fault \in Faults :
          LET batch == batches[bi]
              audio_file == batch[fi]
              r == _process_single_file(config, Val(transcriber), dirs, files,
                                        audio_file, fault)
              entry == [file |-> r.file, error |-> r.error, steps |-> r.steps,
                        calls |-> r.calls, output_path |-> r.output_path,
                        wrote |-> r.wrote, batch |-> bi]
          IN /\ dirs' = r.dirs
             /\ files' = r.files
             /\ log' = Append(log, entry)
             /\ IF r.error # "none" /\ except_Exception(r.error) # "continue"
                THEN /\ Raise("process", r.error)
                     /\ UNCHANGED <<bi, fi, main_task, batch_task, removed>>
                ELSE /\ main_task' = advance(main_task, r.error)
                     /\ fatal' = fatal
                     /\ IF fi < Len(batch)
                        THEN /\ fi' = fi + 1
                             /\ batch_task' = advance(batch_task, r.error)
                             /\ UNCHANGED <<bi, removed, pc>>
                        ELSE /\ removed' = Append(removed,
                                    [total |-> Len(batch),
                                     completed |-> advance(batch_task, r.error)])
                             /\ batch_task' = 0
                             /\ fi' = 1
                             /\ bi' = bi + 1
                             /\ pc' = IF bi < Len(batches) THEN pc ELSE run_next(pc)
    /\ UNCHANGED <<config, validated, transcriber, loads, audio_files, batches, call>>

Next == ValidatePaths \/ LoadModel \/ Discover \/ ProcessFile

Spec == Init /\ [][Next]_vars

\* -------------------------------------------------------------- direct calls

\* The methods called directly on a freshly constructed configuration and
\* file processor, as the unit tests call them.

CallConfigs == {c \in Configs : c.output_format = "md" /\ ~c.recursive}

\* The format tags handed to get_output_path: the five of OutputFormat and
\* one outside them.
CallFormats == OutputFormat \cup {"invalid"}

RECURSIVE SeqsUpTo(_, _)
\* The sequences over S of length at most n.
SeqsUpTo(S, n) ==
    IF n = 0 THEN {<<>>}
    ELSE LET shorter == SeqsUpTo(S, n - 1)
         IN shorter \cup {Append(q, x) : q \in shorter, x \in S}

CallLists == SeqsUpTo({FileA, FileB}, MaxList)

\* A file of the audio folder that has the name of the write probe.
InProbe == Join(InDir, WriteTest)

\* The output paths handed to validate_output_path: one per rule of
\* get_output_path.
CallOutputPaths ==
    {ResFile, Join(OutDir, Nm("a_transcription", ".md")),
     Join(InDir, Nm("a_transcription", ".md"))}

InitCalls ==
    /\ config \in CallConfigs
    /\ \E present \in SUBSET {FileA, FileC, InProbe}, out \in OutStates :
          /\ ~IsSet(config.transcribe_folder) => out = "absent"
          /\ dirs = InitDirs(out)
          /\ files = [p \in DOMAIN InitFiles(present, out) |->
                         IF p = InProbe THEN OtherContent
                         ELSE InitFiles(present, out)[p]]
    /\ InitRun

runVars == <<pc, fatal, validated, transcriber, loads, loopVars>>

\* config.validate_paths()
CallValidatePaths ==
    /\ call = NoCall
    /\ \E permitted \in BOOLEAN :
          LET r == validate_paths(config, dirs, files, permitted)
          IN /\ dirs' = r.dirs
             /\ call' = [op |-> "validate_paths", dirs |-> dirs, files |-> files,
                         error |-> r.error]
    /\ UNCHANGED <<config, files, runVars>>

\* processor.discover_audio_files()
CallDiscover ==
    /\ call = NoCall
    /\ LET r == discover_audio_files(config, dirs, files)
       IN call' = [op |-> "discover_audio_files", error |-> r.error, ret |-> r.list]
    /\ UNCHANGED <<config, fsVars, runVars>>

\* processor.get_output_path(audio_path, output_format)
CallGetOutputPath ==
    /\ call = NoCall
    /\ \E audio_path \in Candidates, output_format \in CallFormats :
          call' = [op |-> "get_output_path", audio_path |-> audio_path,
                   output_format |-> output_format,
                   ret |-> get_output_path(config, audio_path, output_format)]
    /\ UNCHANGED <<config, fsVars, runVars>>

\* list(processor.batch_files(files))
CallBatchFiles ==
    /\ call = NoCall
    /\ \E list \in CallLists :
          call' = [op |-> "batch_files", files |-> list,
                   ret |-> batch_files(config, list)]
    /\ UNCHANGED <<config, fsVars, runVars>>

\* processor.validate_output_path(output_path)
CallValidateOutputPath ==
    /\ call = NoCall
    /\ \E output_path \in CallOutputPaths, permitted \in BOOLEAN :
          LET r == validate_output_path(dirs, files, output_path, permitted)
          IN /\ dirs' = r.dirs
             /\ files' = r.files
             /\ call' = [op |-> "validate_output_path", output_path |-> output_path,
                         permitted |-> permitted, dirs |-> dirs, files |-> files,
                         error |-> r.error]
    /\ UNCHANGED <<config, runVars>>

NextCalls ==
    \/ CallValidatePaths
    \/ CallDiscover
    \/ CallGetOutputPath
    \/ CallBatchFiles
    \/ CallValidateOutputPath

SpecCalls == InitCalls /\ [][NextCalls]_vars

\* ------------------------------------------------------- the per-file pipeline

\* _process_single_file called on an application whose transcriber holds a
\* loaded model, for a configuration built with any format tag.

FileConfigs ==
    {c \in [audio_file : {None, Some(FileA)},
            audio_folder : {None, Some(InDir)},
            transcribe_folder : {None, Some(OutDir)},
            transcription_file : {None, Some(ResFile)},
            recursive : {FALSE},
            output_format : CallFormats,
            batch_size : {1}] :
        IsSet(c.audio_file) # IsSet(c.audio_folder)}

InitFile ==
    /\ config \in FileConfigs
    /\ \E present \in SUBSET {FileA, FileB, FileC}, out \in OutStates :
          /\ ~IsSet(config.transcribe_folder) => out = "absent"
          /\ dirs = InitDirs(out)
          /\ files = InitFiles(present, out)
    /\ InitRun

\* app._process_single_file(audio_file)
CallProcessSingleFile ==
    /\ call = NoCall
    /\ \E audio_file \in {FileA, FileB, FileC}, fault \in Faults :
          LET r == _process_single_file(config, 1, dirs, files, audio_file, fault)
          IN /\ dirs' = r.dirs
             /\ files' = r.files
             /\ call' = [op |-> "_process_single_file", audio_file |-> audio_file,
                         fault |-> fault, files |-> files, error |-> r.error,
                         steps |-> r.steps, output_path |-> r.output_path,
                         wrote |-> r.wrote]
    /\ UNCHANGED <<config, runVars>>

NextFile == CallProcessSingleFile

SpecFile == InitFile /\ [][NextFile]_vars

\* ------------------------------------------------------------- the formatters

\* format_result called on one result object, and again with the same tag,
\* up to MaxCalls times; json.loads on a JSON document, as test_format_json
\* parses it; the time-code formatters on an offset.  The clock reads one
\* second later at each call.

Texts == {<<" ", "h", "i", " ", "o", "k", "\n">>, <<"h", "i">>, <<" ">>}

\* Segments from 0.0 to 2.5, from 2.5 to 61.123 and from 0.0 to 61.123
\* seconds, the offsets in thousandths.
Segments ==
    {[start |-> 0, end |-> 2500, text |-> <<" ", "h", "i">>],
     [start |-> 2500, end |-> 61123, text |-> <<" ", "o", "k", "\n">>],
     [start |-> 0, end |-> 61123, text |-> <<"h", "i", " ", "o", "k">>]}

Metadatas ==
    {[file_path |-> "in/a.mp3", file_size |-> 1, model |-> "base", language |-> "en"],
     [file_path |-> "in/a.mp3", file_size |-> 1, model |-> "base", language |-> "en",
      duration |-> 15500],
     [file_path |-> "in/a.mp3", file_size |-> 1, model |-> "base", language |-> "en",
      duration |-> 0]}

\* The results: with and without segments, with and without metadata.
Results ==
    {[text |-> t, language |-> "en"] @@ s @@ m :
        t \in Texts,
        s \in {<<>>} \cup {[segments |-> l] : l \in SeqsUpTo(Segments, MaxSegments)},
        m \in {<<>>} \cup {[metadata |-> d] : d \in Metadatas}}

\* The offsets handed to the time-code formatters: the first ones, those of
\* test_srt_time_formatting, and one of a hundred hours.
TimeInputs == (0..MaxOffset) \cup {1500, 61123, 3661999, 360000999}

InitFormat ==
    /\ config \in {c \in CallConfigs : c.audio_file = Some(FileA)
                                       /\ ~IsSet(c.audio_folder)
                                       /\ ~IsSet(c.transcribe_folder)
                                       /\ ~IsSet(c.transcription_file)
                                       /\ c.batch_size = 1}
    /\ dirs = InitDirs("absent")
    /\ files = InitFiles({FileA}, "absent")
    /\ pc = run_entry
    /\ fatal = NoFatal
    /\ validated = FALSE
    /\ transcriber = None
    /\ loads = 0
    /\ audio_files = <<>>
    /\ batches = <<>>
    /\ bi = 1
    /\ fi = 1
    /\ main_task = 0
    /\ batch_task = 0
    /\ removed = <<>>
    /\ log = <<>>
    /\ \/ call = NoCall
       \/ \E result \in Results :
             call = [op |-> "result", result |-> result, made |-> <<>>]

\* OutputFormatter.format_result(result, output_format)
CallFormatResult ==
    /\ call.op = "result"
    /\ Len(call.made) < MaxCalls
    /\ \E output_format \in CallFormats :
          LET now == Len(call.made) + 1
              again == call.made # <<>> =>
                          output_format = call.made[Len(call.made)].output_format
              r == format_result(call.result, output_format, now)
          IN /\ again
             /\ call' = [op |-> "result", result |-> r.result,
                         made |-> Append(call.made,
                                     [output_format |-> output_format, now |-> now,
                                      result |-> call.result, error |-> r.error,
                                      content |-> r.content, parsed |-> None])]
    /\ UNCHANGED <<config, fsVars, runVars>>

\* json.loads(content) on the document of the last call
CallJsonLoads ==
    /\ call.op = "result"
    /\ call.made # <<>>
    /\ LET last == call.made[Len(call.made)]
       IN /\ last.output_format = "json"
          /\ last.parsed = None
          /\ call' = [call EXCEPT !.made[Len(call.made)].parsed =
                                        Some(json_loads(last.content))]
    /\ UNCHANGED <<config, fsVars, runVars>>

\* OutputFormatter._format_srt_time(seconds) and _format_vtt_time(seconds)
CallFormatTime ==
    /\ call = NoCall
    /\ \E seconds \in TimeInputs :
          call' = [op |-> "format_time", seconds |-> seconds,
                   srt |-> _format_srt_time(seconds),
                   vtt |-> _format_vtt_time(seconds)]
    /\ UNCHANGED <<config, fsVars, runVars>>

NextFormat == CallFormatResult \/ CallJsonLoads \/ CallFormatTime

SpecFormat == InitFormat /\ [][NextFormat]_vars

\* ------------------------------------------------------------ the transcriber

\* A WhisperTranscriber constructed on a configuration with torch patched to
\* report what it is told to, as the unit tests construct it, and its
\* methods called on it; the subtitle formatters on the result that
\* transcribe_file returned.

\* config.py, line 6
Device == {"cpu", "cuda", "mps"}

\* The configurations of the transcriber: the fields it reads, on a
\* single-file configuration.  A float is its thousandths.
TranscriberConfigs ==
    {[audio_file |-> Some(FileA), audio_folder |-> None, transcribe_folder |-> None,
      transcription_file |-> None, recursive |-> FALSE, output_format |-> "md",
      batch_size |-> 1] @@ s :
        s \in [model : {"base"},
               language : {None, Some(""), Some("en"), Some("fr")},
               temperature : {0, 500},
               top_p : {1000, 800},
               top_k : {None, Some(50)},
               device : Device]}

\* What model.transcribe answers: a text, the detected language and the
\* segments, none, or no "segments" entry at all.
ModelAnswers ==
    {[text |-> <<" ", "h", "i">>, language |-> "en"] @@ s :
        s \in {<<>>} \cup {[segments |-> l] : l \in SeqsUpTo(Segments, MaxSegments)}}

InitTranscriber ==
    /\ config \in TranscriberConfigs
    /\ dirs = InitDirs("absent")
    /\ files = InitFiles({FileA, FileC}, "absent")
    /\ pc = run_entry
    /\ fatal = NoFatal
    /\ validated = FALSE
    /\ transcriber = None
    /\ loads = 0
    /\ audio_files = <<>>
    /\ batches = <<>>
    /\ bi = 1
    /\ fi = 1
    /\ main_task = 0
    /\ batch_task = 0
    /\ removed = <<>>
    /\ log = <<>>
    /\ \E cuda \in BOOLEAN, mps \in BOOLEAN :
          call = [op |-> "torch", torch |-> [cuda |-> cuda, mps |-> mps]]

\* WhisperTranscriber(config)
CallConstruct ==
    /\ call.op = "torch"
    /\ call' = [op |-> "WhisperTranscriber", torch |-> call.torch,
                loaded |-> load_model_args(config, call.torch)]
    /\ UNCHANGED <<config, fsVars, runVars>>

\* transcriber._get_device()
CallGetDevice ==
    /\ call.op = "WhisperTranscriber"
    /\ call' = [op |-> "_get_device", torch |-> call.torch, loaded |-> call.loaded,
                ret |-> _get_device(config, call.torch)]
    /\ UNCHANGED <<config, fsVars, runVars>>

\* transcriber._get_transcription_options()
CallGetTranscriptionOptions ==
    /\ call.op = "WhisperTranscriber"
    /\ call' = [op |-> "_get_transcription_options", torch |-> call.torch,
                loaded |-> call.loaded,
                ret |-> _get_transcription_options(config, call.torch)]
    /\ UNCHANGED <<config, fsVars, runVars>>

\* transcriber.transcribe_file(audio_path)
CallTranscribeFile ==
    /\ call.op = "WhisperTranscriber"
    /\ \E audio_path \in {FileA, FileB, FileC},
          answer \in {None} \cup {Some(a) : a \in ModelAnswers} :
          LET r == transcribe_file_traced(config, call.torch, dirs, files,
                                          audio_path, answer)
          IN call' = [op |-> "transcribe_file", torch |-> call.torch,
                      loaded |-> call.loaded, audio_path |-> audio_path,
                      answer |-> answer, error |-> r.error, invoked |-> r.invoked,
                      result |-> r.result, srt |-> None, vtt |-> None]
    /\ UNCHANGED <<config, fsVars, runVars>>

\* OutputFormatter.format_srt(result) and format_vtt(result) on the result
\* transcribe_file returned
CallFormatSubtitles ==
    /\ call.op = "transcribe_file"
    /\ call.error = "none"
    /\ call.srt = None
    /\ call' = [call EXCEPT !.srt = Some(format_srt(Val(call.result))),
                            !.vtt = Some(format_vtt(Val(call.result)))]
    /\ UNCHANGED <<config, fsVars, runVars>>

NextTranscriber ==
    \/ CallConstruct
    \/ CallGetDevice
    \/ CallGetTranscriptionOptions
    \/ CallTranscribeFile
    \/ CallFormatSubtitles

SpecTranscriber == InitTranscriber /\ [][NextTranscriber]_vars

\* -------------------------------------------------------------------- claims

\* The files handed to _process_single_file so far, in order.
Attempted == [i \in 1..Len(log) |-> log[i].file]

IsPrefix(s, t) == Len(s) <= Len(t) /\ \A i \in 1..Len(s) : s[i] = t[i]

Finished == pc \in {"returned", "raised"}

RECURSIVE Flatten(_)
Flatten(groups) ==
    IF groups = <<>> THEN <<>> ELSE Head(groups) \o Flatten(Tail(groups))

\* Whether some file holds a transcript, written whole or in part.
HasOutput == \E p \in DOMAIN files : files[p].kind \in {"transcript", "partial"}

\* C1: per-file failure isolation.  Whatever fails for whichever files, the
\* files handed to _process_single_file are the discovered list from its
\* first file on, and a run that discovered files ends only after every one
\* of them was attempted: a failure on one file stops no later file.
C1_FailureIsolation ==
    /\ IsPrefix(Attempted, audio_files)
    /\ (Finished /\ audio_files # <<>>) => Attempted = audio_files

\* A finished run of at least three files whose first file failed in the
\* model, whose second failed while saving and whose last was saved.
C1_Witness ==
    /\ pc = "returned"
    /\ Len(log) >= 3
    /\ log[1].error = "Exception: model"
    /\ log[2].error = "RuntimeError: Failed to save"
    /\ log[Len(log)].error = "none"

\* C2: the execution order does not depend on batching.  The files are
\* handed to _process_single_file one at a time in discovery order, for
\* every batch_size the groups of batch_files put end to end are the
\* discovered list, and a finished run went through the whole list.
C2_OrderIndependentOfBatching ==
    /\ IsPrefix(Attempted, audio_files)
    /\ \A b \in 1..MaxBatch :
          Flatten(batch_files([config EXCEPT !.batch_size = b], audio_files))
             = audio_files
    /\ Flatten(batches) = audio_files
    /\ pc = "returned" => Attempted = audio_files
    /\ \A i \in 1..Len(log) : \A j \in 1..Len(log) :
          i <= j => log[i].batch <= log[j].batch

\* A finished run of three files in batches of two: two groups, the second
\* of one file.
C2_Witness ==
    /\ pc = "returned"
    /\ config.batch_size = 2
    /\ Len(audio_files) = 3
    /\ Len(batches) = 2
    /\ Attempted = audio_files
    /\ log[3].batch = 2

\* C3: no retry.  Each file's processing calls the model at most once, and
\* no file is handed to _process_single_file twice, whether it failed or not.
C3_NoRetry ==
    /\ \A i \in 1..Len(log) : Len(log[i].calls) <= 1
    /\ \A i \in 1..Len(log) : \A j \in 1..Len(log) :
          i # j => log[i].file # log[j].file

\* A finished run in which the model raised for one file, called once, and
\* a later file was processed.
C3_Witness ==
    /\ pc = "returned"
    /\ \E i \in 1..Len(log) :
          /\ log[i].error = "Exception: model"
          /\ Len(log[i].calls) = 1
          /\ i < Len(log)

\* C4: batch_files splits a list of N files with batch_size b into
\* ceil(N / b) consecutive groups that put end to end are the list; every
\* group is non-empty, every group but the last has b files, the last has
\* between 1 and b, and an empty list gives no group.
C4_BatchFilesPartition ==
    call.op = "batch_files" =>
        LET N == Len(call.files)
            b == config.batch_size
            g == call.ret
        IN /\ Len(g) = (N + b - 1) \div b
           /\ Flatten(g) = call.files
           /\ \A k \in 1..Len(g) : Len(g[k]) >= 1
           /\ \A k \in 1..(Len(g) - 1) : Len(g[k]) = b
           /\ g # <<>> => Len(g[Len(g)]) \in 1..b
           /\ N = 0 => g = <<>>

\* Five files in batches of two: groups of 2, 2 and 1.
C4_Witness ==
    /\ call.op = "batch_files"
    /\ Len(call.files) = 5
    /\ config.batch_size = 2
    /\ [k \in 1..Len(call.ret) |-> Len(call.ret[k])] = <<2, 2, 1>>

\* C5: only the errors of validate_paths, of the model load and of discovery
\* end the run with an exception; once a file was handed to
\* _process_single_file the run is in its loop or has returned normally.
C5_OnlyStartupErrorsFatal ==
    /\ pc = "raised" =>
          /\ fatal.stmt \in {"validate_paths", "load_model", "discover"}
          /\ log = <<>>
    /\ log # <<>> => pc \in {"process", "returned"}

\* A run of at least two files, every one of which failed, that returned.
C5_Witness ==
    /\ pc = "returned"
    /\ Len(log) >= 2
    /\ \A i \in 1..Len(log) : log[i].error # "none"

\* C6: validate_paths returns before the model is loaded, before discovery
\* and before any file is transcribed or written; when it raises, none of
\* these happens.
C6_ValidateBeforeProcessing ==
    /\ (loads > 0 \/ IsSet(transcriber) \/ audio_files # <<>> \/ log # <<>>
         \/ HasOutput) => validated
    /\ fatal.stmt = "validate_paths" =>
          /\ ~validated
          /\ loads = 0
          /\ ~IsSet(transcriber)
          /\ audio_files = <<>>
          /\ log = <<>>
          /\ ~HasOutput

\* A run that validate_paths ended: the configured audio file is missing.
C6_Witness ==
    /\ pc = "raised"
    /\ fatal = [stmt |-> "validate_paths",
                error |-> "ValueError: Audio file does not exist"]

\* C7: validate_paths raises when neither source is set, when both are set
\* and when the configured file or folder does not exist, so it returns only
\* for a configuration with exactly one source, which exists;
\* discover_audio_files raises when neither source is set.
C7_ExactlyOneSource ==
    LET neither == ~IsSet(config.audio_file) /\ ~IsSet(config.audio_folder)
        both == IsSet(config.audio_file) /\ IsSet(config.audio_folder)
    IN /\ call.op = "validate_paths" =>
             LET missing ==
                     \/ /\ IsSet(config.audio_file)
                        /\ ~Exists(call.dirs, call.files, Val(config.audio_file))
                     \/ /\ IsSet(config.audio_folder)
                        /\ ~Exists(call.dirs, call.files, Val(config.audio_folder))
             IN /\ (neither \/ both \/ missing) => call.error # "none"
                /\ call.error = "none" =>
                      Cardinality(config.audio_file \cup config.audio_folder) = 1
       /\ (call.op = "discover_audio_files" /\ neither) =>
             call.error = "ValueError: No audio source specified"

\* validate_paths raised for a configuration naming a file and a folder that
\* both exist.
C7_Witness ==
    /\ call.op = "validate_paths"
    /\ IsSet(config.audio_file)
    /\ IsSet(config.audio_folder)
    /\ Exists(call.dirs, call.files, Val(config.audio_file))
    /\ Exists(call.dirs, call.files, Val(config.audio_folder))
    /\ call.error = "ValueError: Cannot specify both audio_file and audio_folder"

\* C8: if a transcribe_folder is configured, it is a directory of the file
\* system whenever an output file of the run has been written.
C8_OutputFolderExistsBeforeWrite ==
    (IsSet(config.transcribe_folder) /\ \E i \in 1..Len(log) : log[i].wrote)
        => IsDir(dirs, Val(config.transcribe_folder))

\* C9: the model is loaded at most once in a run and exactly once before the
\* first file is processed, every call of the model is on the loaded handle,
\* and a failed load leaves no file discovered or processed.
C9_ModelLoadedOnce ==
    /\ loads <= 1
    /\ (log # <<>> \/ audio_files # <<>>) => (loads = 1 /\ IsSet(transcriber))
    /\ \A i \in 1..Len(log) : \A k \in 1..Len(log[i].calls) :
          log[i].calls[k] \in transcriber
    /\ fatal.stmt = "load_model" => (log = <<>> /\ audio_files = <<>> /\ ~HasOutput)

\* A finished run in which the model was called for two files.
C9_Witness ==
    /\ pc = "returned"
    /\ loads = 1
    /\ \E i \in 1..Len(log) : \E j \in 1..Len(log) :
          i < j /\ log[i].calls # <<>> /\ log[j].calls # <<>>

\* C10: get_output_path returns the configured transcription_file when both
\* it and audio_file are set, whatever the format tag and the
\* transcribe_folder; otherwise {transcribe_folder}/{stem}_transcription.{ext}
\* when transcribe_folder is set; otherwise
\* {source parent}/{stem}_transcription.{ext}; with no audio_file set (a
\* directory source) the transcription_file is never returned.
C10_OutputPathPrecedence ==
    call.op = "get_output_path" =>
        LET ext == IF call.output_format \in OutputFormat
                   THEN call.output_format ELSE "txt"
            name == [stem |-> Stem(call.audio_path) \o "_transcription",
                     suffix |-> "." \o ext]
        IN /\ (IsSet(config.audio_file) /\ IsSet(config.transcription_file))
                 => call.ret = Val(config.transcription_file)
           /\ (~(IsSet(config.audio_file) /\ IsSet(config.transcription_file))
                 /\ IsSet(config.transcribe_folder))
                 => call.ret = Append(Val(config.transcribe_folder), name)
           /\ (~(IsSet(config.audio_file) /\ IsSet(config.transcription_file))
                 /\ ~IsSet(config.transcribe_folder))
                 => call.ret = Append(Parent(call.audio_path), name)
           /\ (~IsSet(config.audio_file) /\ IsSet(config.transcription_file))
                 => call.ret # Val(config.transcription_file)

\* A directory source with transcription_file and transcribe_folder set:
\* rule (2) applies.
C10_Witness ==
    /\ call.op = "get_output_path"
    /\ ~IsSet(config.audio_file)
    /\ IsSet(config.audio_folder)
    /\ IsSet(config.transcription_file)
    /\ IsSet(config.transcribe_folder)
    /\ call.audio_path = FileSubA
    /\ call.output_format = "json"
    /\ call.ret = Append(OutDir, Nm("a_transcription", ".json"))

\* C11: two distinct source files that were both processed successfully were
\* written to two distinct output paths, so no transcript overwrites another.
C11_DistinctOutputPaths ==
    \A i, j \in 1..Len(log) :
        (/\ i # j
         /\ log[i].file # log[j].file
         /\ log[i].error = "none"
         /\ log[j].error = "none")
        => log[i].output_path # log[j].output_path

\* The content of the file at path p in the file system `fs`, None when there
\* is no such file.
ContentAt(fs, p) == IF p \in DOMAIN fs THEN Some(fs[p]) ELSE None

\* C12: with a format tag outside md, txt, json, srt, vtt the per-file
\* pipeline ends in an error and writes no file at the resolved output path:
\* when it gets as far as formatting, format_result raises the
\* unsupported-format error, although the resolver gave the path the txt
\* extension.
C12_UnsupportedFormatWritesNothing ==
    (call.op = "_process_single_file" /\ config.output_format \notin OutputFormat)
    => /\ call.error # "none"
       /\ ~call.wrote
       /\ IsSet(call.output_path) =>
             /\ ContentAt(files, Val(call.output_path))
                   = ContentAt(call.files, Val(call.output_path))
             /\ ~(IsSet(config.transcription_file) /\ IsSet(config.audio_file))
                   => Suffix(Val(call.output_path)) = ".txt"
       /\ Len(call.steps) >= 4 =>
             /\ call.steps = <<"transcribe", "resolve", "validate", "format">>
             /\ call.error = "ValueError: Unsupported output format"

C12_Witness ==
    /\ call.op = "_process_single_file"
    /\ config.output_format = "invalid"
    /\ call.error = "ValueError: Unsupported output format"
    /\ call.fault = "none"
    /\ IsSet(call.output_path)
    /\ Suffix(Val(call.output_path)) = ".txt"
    /\ Val(call.output_path) \notin DOMAIN files

\* C13: an output file is written atomically: after the per-file pipeline,
\* also when the write failed part-way, the output path holds what it held
\* before (nothing, or its previous content) or the complete document.
C13_AtomicWrite ==
    (call.op = "_process_single_file" /\ IsSet(call.output_path))
    => LET p == Val(call.output_path)
       IN \/ ContentAt(files, p) = ContentAt(call.files, p)
          \/ /\ p \in DOMAIN files
             /\ files[p].kind = "transcript"
             /\ files[p].src = Some(PathStr(call.audio_file))

\* The result object after the i-th call of format_result on it.
ResultAfter(i) == IF i < Len(call.made) THEN call.made[i + 1].result ELSE call.result

\* C14: for each of the five supported tags format_result leaves the result
\* handed to it unchanged: the same keys with the same values after the call
\* as before it.
C14_FormatResultLeavesResultUnchanged ==
    call.op = "result"
    => \A i \in 1..Len(call.made) :
          call.made[i].output_format \in OutputFormat
          => /\ DOMAIN ResultAfter(i) = DOMAIN call.made[i].result
             /\ \A k \in DOMAIN call.made[i].result :
                   ResultAfter(i)[k] = call.made[i].result[k]

SameButStamp(a, b, now_a, now_b) ==
    \/ a = b
    \/ \E label \in {"**Generated:** ", "Generated: "} :
          a = label \o IsoFormat(now_a) /\ b = label \o IsoFormat(now_b)

\* C16: two calls of format_result in a row on the same result object with
\* the same supported tag give the same output but for the generation
\* timestamp: the same lines except the generation line, and for json the
\* same keys with the same values except under generated_at.
C16_SameOutputButTimestamp ==
    call.op = "result"
    => \A i \in 1..(Len(call.made) - 1) :
          LET first == call.made[i]
              second == call.made[i + 1]
          IN (first.output_format = second.output_format
              /\ first.output_format \in OutputFormat)
             => IF first.output_format = "json"
                THEN /\ DOMAIN first.content.members = DOMAIN second.content.members
                     /\ \A k \in DOMAIN first.content.members \ {"generated_at"} :
                           first.content.members[k] = second.content.members[k]
                ELSE /\ Len(first.content) = Len(second.content)
                     /\ \A j \in 1..Len(first.content) :
                           SameButStamp(first.content[j], second.content[j],
                                        first.now, second.now)
                     /\ first.output_format \in {"srt", "vtt"}
                           => first.content = second.content

C16_Witness ==
    /\ call.op = "result"
    /\ Len(call.made) = 2
    /\ call.made[1].output_format = "json"
    /\ call.made[2].output_format = "json"
    /\ "segments" \in DOMAIN call.made[1].result
    /\ call.made[1].content.members["generated_at"]
          # call.made[2].content.members["generated_at"]
    /\ "generated_at" \in DOMAIN call.made[2].result

\* The segments of a result, none when it has no such key.
SegmentsOf(result) == IF "segments" \in DOMAIN result THEN result.segments ELSE <<>>

\* metadata.duration of a result, 30 seconds when it is absent.
DurationOf(result) ==
    IF "metadata" \in DOMAIN result /\ "duration" \in DOMAIN result.metadata
    THEN result.metadata.duration
    ELSE 30000

\* `line` is the text `chars` without its leading and trailing whitespace.
IsTrimmed(line, chars) ==
    \E a \in 1..(Len(chars) + 1), b \in 0..Len(chars) :
        /\ a <= b + 1
        /\ \A i \in 1..(a - 1) : chars[i] \in Whitespace
        /\ \A i \in (b + 1)..Len(chars) : chars[i] \in Whitespace
        /\ a <= b => chars[a] \notin Whitespace /\ chars[b] \notin Whitespace
        /\ line = Str(SubSeq(chars, a, b))

Numeral == <<"1", "2", "3", "4">>

SameRange(srt, vtt, result) ==
    LET offsets == {0, DurationOf(result)}
                   \cup {SegmentsOf(result)[i].start : i \in 1..Len(SegmentsOf(result))}
                   \cup {SegmentsOf(result)[i].end : i \in 1..Len(SegmentsOf(result))}
    IN \E a \in offsets, b \in offsets :
          /\ srt = _format_srt_time(a) \o " --> " \o _format_srt_time(b)
          /\ vtt = _format_vtt_time(a) \o " --> " \o _format_vtt_time(b)

C19_TimeCode ==
    call.op = "format_time"
    => LET s == call.seconds
           hms == Pad(s \div 3600000, 2) \o ":" \o Pad((s % 3600000) \div 60000, 2)
                  \o ":" \o Pad((s % 60000) \div 1000, 2)
       IN /\ call.srt = hms \o "," \o Pad(s % 1000, 3)
          /\ call.vtt = hms \o "." \o Pad(s % 1000, 3)

\* The run has discovered its files and processed none yet.
Discovered ==
    /\ pc \in {"process", "returned"}
    /\ fatal = NoFatal
    /\ log = <<>>

\* C20: discovery over a directory returns exactly the regular files whose
\* lower-cased extension is an audio extension, among the children of the
\* directory when recursive is false and among all its descendants when it
\* is true, no directory, each once, in ascending order of path; a second
\* discovery over the unchanged directory returns the same list.  Discovery
\* over a single-file source returns the list of that one file.
C20_Discovery ==
    Discovered
    => IF IsSet(config.audio_file)
       THEN audio_files = <<Val(config.audio_file)>>
       ELSE LET folder == Val(config.audio_folder)
                expected ==
                    {p \in DOMAIN files :
                        /\ IsPrefix(folder, p)
                        /\ IF config.recursive THEN Len(p) > Len(folder)
                           ELSE Len(p) = Len(folder) + 1
                        /\ Lower(Suffix(p)) \in supported_extensions}
            IN /\ {audio_files[i] : i \in 1..Len(audio_files)} = expected
               /\ \A i \in 1..Len(audio_files) : audio_files[i] \notin dirs
               /\ \A i, j \in 1..Len(audio_files) :
                     i < j => PathLess(audio_files[i], audio_files[j])
               /\ discover_audio_files(config, dirs, files).list = audio_files

C20_Witness ==
    /\ Discovered
    /\ config.audio_folder = Some(InDir)
    /\ config.recursive
    /\ DOMAIN files = {FileB, FileC, FileSubA}
    /\ AlbumDir \in dirs
    /\ audio_files = <<FileB, FileSubA>>

\* The keyword dicts that reached or would reach the model boundary in the
\* last call: what _get_transcription_options returned, and the keywords of
\* each invocation made by transcribe_file.
OptionsPassed ==
    IF call.op = "_get_transcription_options" THEN {call.ret}
    ELSE IF call.op = "transcribe_file"
    THEN {call.invoked[i].keywords : i \in 1..Len(call.invoked)}
    ELSE {}

\* C21: the decoding options passed to the model boundary contain language
\* iff a language is configured, temperature iff it is non-zero, top_p iff
\* it differs from 1.0, top_k iff it is set, and fp16 = False whenever the
\* resolved device is the CPU and no fp16 entry otherwise.
C21_DecodingOptions ==
    \A options \in OptionsPassed :
        /\ "language" \in DOMAIN options <=> IsSet(config.language)
        /\ "temperature" \in DOMAIN options <=> config.temperature # 0
        /\ "top_p" \in DOMAIN options <=> config.top_p # 1000
        /\ "top_k" \in DOMAIN options <=> IsSet(config.top_k)
        /\ IF _get_device(config, call.torch) = "cpu"
           THEN "fp16" \in DOMAIN options /\ options["fp16"] = FALSE
           ELSE "fp16" \notin DOMAIN options

\* C22: with temperature 0.0, top_p 1.0, top_k unset and device cpu,
\* transcribe_file invokes the model exactly once, with the file path and
\* exactly one decoding option, language; no other keyword is passed.
C22_OnlyLanguagePassed ==
    (/\ call.op = "transcribe_file"
     /\ call.error = "none"
     /\ config.language \in {Some("en"), Some("fr")}
     /\ config.temperature = 0
     /\ config.top_p = 1000
     /\ config.top_k = None
     /\ config.device = "cpu")
    => /\ Len(call.invoked) = 1
       /\ call.invoked[1].audio = PathStr(call.audio_path)
       /\ DOMAIN call.invoked[1].keywords = {"language"}

\* Whether torch reports the device as usable; the cpu always is.
Available(device, torch) ==
    \/ device = "cpu"
    \/ device = "cuda" /\ torch.cuda
    \/ device = "mps" /\ torch.mps

\* C26: _get_device returns the requested device whenever it is cpu or an
\* available accelerator; when the requested accelerator is unavailable it
\* returns mps if available, else cuda if available, else cpu; the returned
\* device is always available, and the model was loaded on exactly that
\* device.
C26_DeviceResolution ==
    call.op = "_get_device" =>
        /\ Available(config.device, call.torch) => call.ret = config.device
        /\ ~Available(config.device, call.torch) =>
              call.ret = (IF call.torch.mps THEN "mps"
                          ELSE IF call.torch.cuda THEN "cuda" ELSE "cpu")
        /\ Available(call.ret, call.torch)
        /\ call.loaded = [name |-> config.model, device |-> call.ret]

\* cuda requested, only mps available: the model is loaded on mps.
C26_Witness ==
    /\ call.op = "_get_device"
    /\ config.device = "cuda"
    /\ call.torch = [cuda |-> FALSE, mps |-> TRUE]
    /\ call.ret = "mps"
    /\ call.loaded.device = "mps"

\* C27: the metadata is attached by transcribe_file after the model call
\* returned; metadata.duration is the end of the last segment when the
\* result has at least one segment and 0 when it has none, so it is always
\* present, and the cue that format_srt and format_vtt make for a result
\* without segments ends at the time-code of 0 seconds, never at that of the
\* 30-second default.
C27_DurationAlwaysPresent ==
    (call.op = "transcribe_file" /\ call.error = "none") =>
        LET answer == Val(call.answer)
            result == Val(call.result)
            segments == Get(answer, "segments", <<>>)
        IN /\ "metadata" \notin DOMAIN answer
           /\ "metadata" \in DOMAIN result
           /\ "duration" \in DOMAIN result.metadata
           /\ result.metadata.duration =
                 (IF segments # <<>> THEN segments[Len(segments)].end ELSE 0)
           /\ (segments = <<>> /\ IsSet(call.srt)) =>
                 /\ Val(call.srt)[2] = "00:00:00,000 --> 00:00:00,000"
                 /\ Val(call.vtt)[3] = "00:00:00.000 --> 00:00:00.000"

\* A model answer with an empty segment list went through transcribe_file
\* and the subtitle formatters.
C27_Witness ==
    /\ call.op = "transcribe_file"
    /\ call.error = "none"
    /\ "segments" \in DOMAIN Val(call.answer)
    /\ Val(call.answer).segments = <<>>
    /\ Val(call.result).metadata.duration = 0
    /\ IsSet(call.srt)
    /\ Len(Val(call.srt)) = 4

\* C23: a source file that does not exist, or whose lower-cased extension is
\* not a recognised one, is rejected by transcribe_file before the model is
\* invoked; in a run this fails that file at its transcription step and
\* never the run, also for a single-file source with an unsupported
\* extension, which discovery returns unfiltered.
C23_RejectedBeforeModel ==
    /\ \A p \in Candidates, fault \in {"none", "model_raises"} :
          (~Exists(dirs, files, p) \/ Lower(Suffix(p)) \notin supported_extensions) =>
              LET t == transcribe_file(1, dirs, files, p, fault)
              IN /\ t.calls = <<>>
                 /\ t.error = (IF ~Exists(dirs, files, p)
                               THEN "FileNotFoundError: Audio file not found"
                               ELSE "ValueError: Unsupported audio format")
    /\ \A i \in 1..Len(log) :
          Lower(Suffix(log[i].file)) \notin supported_extensions =>
              /\ log[i].error = "ValueError: Unsupported audio format"
              /\ log[i].calls = <<>>
              /\ log[i].steps = <<"transcribe">>
              /\ ~log[i].wrote
    /\ fatal.stmt # "process"
    /\ pc = "raised" => log = <<>>

\* The run over the single source in/c.txt returned after the file was
\* rejected without a model call.
C23_Witness ==
    /\ pc = "returned"
    /\ config.audio_file = Some(FileC)
    /\ Len(log) = 1
    /\ log[1].file = FileC
    /\ log[1].error = "ValueError: Unsupported audio format"
    /\ log[1].calls = <<>>

\* Whether creating the directory p fails for a reason other than
\* permission: a regular file stands at p or above it.
Blocked(ds, fs, p) == ~IsDir(ds, p) /\ \E q \in Prefixes(p) : IsFile(fs, q)

\* C24: validate_output_path makes the destination's parent directory exist,
\* intermediate directories included, and probes write access; a permission
\* failure surfaces as the PermissionError "no write permission", every
\* other failure as the RuntimeError "cannot write to output path", and in a
\* run either one fails that file at its validation step, nothing written,
\* and never the run.
C24_ValidateOutputPathErrors ==
    /\ \A output_path \in CallOutputPaths, permitted \in BOOLEAN :
          LET v == validate_output_path(dirs, files, output_path, permitted)
              parent == Parent(output_path)
          IN /\ v.error = "none" <=> (permitted /\ ~Blocked(dirs, files, parent))
             /\ v.error = "none" => Prefixes(parent) \subseteq v.dirs
             /\ (~permitted /\ ~Blocked(dirs, files, parent)) =>
                   v.error = "PermissionError: No write permission"
             /\ Blocked(dirs, files, parent) =>
                   v.error = "RuntimeError: Cannot write to output path"
    /\ \A i \in 1..Len(log) :
          log[i].error \in {"PermissionError: No write permission",
                            "RuntimeError: Cannot write to output path"} =>
              /\ log[i].steps = <<"transcribe", "resolve", "validate">>
              /\ ~log[i].wrote
    /\ fatal.stmt # "process"

\* A run in which one file failed its validation for lack of permission and
\* a later file was written.
C24_Witness ==
    /\ pc = "returned"
    /\ \E i, j \in 1..Len(log) :
          /\ i < j
          /\ log[i].error = "PermissionError: No write permission"
          /\ log[i].steps = <<"transcribe", "resolve", "validate">>
          /\ log[j].error = "none"
          /\ log[j].wrote

\* The files of the current batch handed to _process_single_file so far.
DoneInBatch == Cardinality({i \in 1..Len(log) : log[i].batch = bi})

\* C25: the overall counter and the current batch counter are advanced
\* exactly once per file, failed or not; a removed batch task's counter
\* equals the batch length; the overall counter never exceeds the number of
\* discovered files and equals it when the loop has ended.
C25_ProgressAccounting ==
    /\ main_task = Len(log)
    /\ main_task <= Len(audio_files)
    /\ pc = "process" => batch_task = DoneInBatch /\ batch_task < Len(batches[bi])
    /\ Len(removed) = bi - 1
    /\ \A k \in 1..Len(removed) :
          /\ removed[k].total = Len(batches[k])
          /\ removed[k].completed = removed[k].total
    /\ pc = "returned" => main_task = Len(audio_files) /\ batch_task = 0

\* The loop ended over three files in two batches, one file failed and one
\* succeeded.
C25_Witness ==
    /\ pc = "returned"
    /\ main_task = 3
    /\ Len(removed) = 2
    /\ \E i, j \in 1..Len(log) : log[i].error # "none" /\ log[j].error = "none"

\* The order of the steps of _process_single_file.
StepOrder == <<"transcribe", "resolve", "validate", "format", "save">>

\* C28: for every file the steps run in the order transcribe, resolve output
\* path, validate output path, format, write; a step runs only if every
\* earlier step succeeded, so the output file is written only after
\* transcription, validation and formatting succeeded, and a failure at any
\* step leaves that file's output path unwritten.
C28_StepOrder ==
    call.op = "_process_single_file" =>
        /\ IsPrefix(call.steps, StepOrder)
        /\ call.error = "none" => call.steps = StepOrder
        /\ call.wrote => call.steps = StepOrder
        /\ call.error # "none" =>
              /\ ~call.wrote
              /\ \A p \in call.output_path :
                    ContentAt(files, p) = ContentAt(call.files, p)

\* The files a discovery started in the current state finds: the single
\* source as it is, or the files of the folder that _is_audio_file accepts
\* (the list returned is this set, sorted).
FoundNow ==
    IF IsSet(config.audio_file) THEN {Val(config.audio_file)}
    ELSE {p \in Glob(dirs, files, Val(config.audio_folder), config.recursive) :
             IsFile(files, p) /\ _is_audio_file(p)}

\* The output paths written so far by the rules of get_output_path that
\* derive the name from the source: into transcribe_folder, or next to the
\* source.
WrittenByRule ==
    IF IsSet(config.transcription_file) THEN {}
    ELSE {Val(log[i].output_path) : i \in {j \in 1..Len(log) : log[j].wrote}}

\* C29: outputs are never rediscovered as inputs: every extension the path
\* resolver can produce and the name of the write probe lie outside the
\* recognised audio extensions, so a file written into transcribe_folder or
\* next to its source is not found by a later discovery, and a discovery
\* after the run finds the same audio files as the one that started it.
C29_OutputsNotRediscovered ==
    /\ \A output_format \in CallFormats :
          ("." \o _get_extension_for_format(output_format)) \notin supported_extensions
    /\ Lower(WriteTest.suffix) \notin supported_extensions
    /\ pc \in {"process", "returned"} =>
          /\ FoundNow = {audio_files[i] : i \in 1..Len(audio_files)}
          /\ WrittenByRule \cap FoundNow = {}

\* A run over the audio folder wrote a transcript inside that
\* folder, where a later discovery globs it.
C29_Witness ==
    /\ pc = "returned"
    /\ IsSet(config.audio_folder)
    /\ \E p \in WrittenByRule :
          /\ IsFile(files, p)
          /\ p \in Glob(dirs, files, Val(config.audio_folder), config.recursive)
          /\ p \notin FoundNow

\* C30: validate_output_path has no effect on the destination directory
\* beyond creating missing directories: after a successful call no probe
\* file remains, and every entry that existed before the call, an entry
\* already named ".write_test" included, still exists with its content
\* unchanged.
C30_ValidateOutputPathFrame ==
    (call.op = "validate_output_path" /\ call.error = "none") =>
        LET test_file == Join(Parent(call.output_path), WriteTest)
        IN /\ call.dirs \subseteq dirs
           /\ \A p \in DOMAIN call.files :
                 p \in DOMAIN files /\ files[p] = call.files[p]
           /\ test_file \notin DOMAIN call.files => test_file \notin DOMAIN files

====
